---- MODULE Spec2Model ----
(***************************************************************************)
(* A model of PromRule (pkg/query-service/rules/prom_rule.go): the         *)
(* evaluation tick (Eval), the notification gate (SendAlerts), the read    *)
(* accessors and the match evaluator (shouldAlert).                        *)
(*                                                                         *)
(* Time is counted in abstract units; 0 is the zero time.Time (IsZero).    *)
(* A float64 is a record [n, d]: the rational n/d when d > 0, and the      *)
(* IEEE specials when d = 0 (1/0 = +Inf, -1/0 = -Inf, 0/0 = NaN).  With    *)
(* the small integer samples and thresholds used here every sum and every  *)
(* comparison of a quotient with an integer is exact in float64 as well.   *)
(***************************************************************************)
EXTENDS Integers, Sequences, FiniteSets, TLC

VARIABLES
    holdDuration,   \* r.holdDuration
    ruleCondition,  \* r.ruleCondition: MatchType, CompareOp, Target
    opts,           \* r.opts: SendAlways
    reader,         \* r.reader # nil
    mtx,            \* r.mtx: "free" or the thread that holds it
    health,         \* r.health
    lastError,      \* r.lastError
    active,         \* r.active: fingerprint -> Alert
    now,            \* the latest time handed to Eval or SendAlerts
    pc,             \* position of the scheduler thread (Eval, SendAlerts)
    ts,             \* the ts argument of the running call
    query,          \* Eval: what RunAlertQuery returned to the running call, and the
                    \* health the call found
    resultFPs,      \* Eval: the local resultFPs
    prevState,      \* Eval: the local prevState
    pre,            \* r.active as it was when the running call began
    itemsToAdd,     \* Eval: the local itemsToAdd
    sunk,           \* Eval: the batches handed to AddRuleStateHistory by this call
    ret,            \* the error returned by the last Eval
    sendArgs,       \* SendAlerts: resendDelay and interval
    notified,       \* SendAlerts: the batches handed to notifyFunc by this call
    rpc,            \* position of the reader thread (the read accessors)
    raced,          \* the map was written while State() was reading it
    stateResult,    \* what the reader's last State() returned
    since,          \* history: fingerprint -> the first tick of its present run of
                    \* successful ticks in each of which it qualified
    lastSeries,     \* shouldAlert: the series argument of the last call
    lastSmpl        \* shouldAlert: what the last call returned (alertSmpl, shouldAlert)

cfg == <<holdDuration, ruleCondition, opts, reader>>
rule == <<mtx, health, lastError, active>>
sched == <<now, pc, ts, query, resultFPs, prevState, pre, itemsToAdd, sunk, ret, sendArgs, notified>>
rdr == <<rpc, raced, stateResult>>
match == <<lastSeries, lastSmpl>>
vars == <<cfg, rule, sched, rdr, since, match>>

----------------------------------------------------------------------------
(* Bounds of the model. *)

MaxTime == 4        \* ticks are numbered 1..MaxTime
ConcTime == 2       \* the ticks the reader thread runs along with
MaxSamples == 3     \* the samples of a series handed to shouldAlert on its own

----------------------------------------------------------------------------
(* float64 *)

RECURSIVE Gcd(_, _)
Gcd(a, b) == IF b = 0 THEN a ELSE Gcd(b, a % b)

Abs(x) == IF x < 0 THEN -x ELSE x

Norm(n, d) ==
    IF d = 0
    THEN [n |-> IF n > 0 THEN 1 ELSE IF n < 0 THEN -1 ELSE 0, d |-> 0]
    ELSE LET g == Gcd(Abs(n), d) IN [n |-> n \div g, d |-> d \div g]

Fl(i) == [n |-> i, d |-> 1]
NaN == [n |-> 0, d |-> 0]
PosInf == [n |-> 1, d |-> 0]
NegInf == [n |-> -1, d |-> 0]

IsNaN(x) == x.d = 0 /\ x.n = 0
IsInf(x) == x.d = 0 /\ x.n # 0

FLt(a, b) ==
    /\ ~IsNaN(a)
    /\ ~IsNaN(b)
    /\ IF IsInf(a) /\ IsInf(b) THEN a.n < b.n ELSE a.n * b.d < b.n * a.d
FGt(a, b) == FLt(b, a)
FEq(a, b) == ~IsNaN(a) /\ ~IsNaN(b) /\ a = b
FNe(a, b) == ~FEq(a, b)
FLe(a, b) == FLt(a, b) \/ FEq(a, b)
FGe(a, b) == FGt(a, b) \/ FEq(a, b)

FAdd(a, b) ==
    IF IsNaN(a) \/ IsNaN(b) THEN NaN
    ELSE IF IsInf(a) /\ IsInf(b) THEN (IF a.n = b.n THEN a ELSE NaN)
    ELSE IF IsInf(a) THEN a
    ELSE IF IsInf(b) THEN b
    ELSE Norm(a.n * b.d + b.n * a.d, a.d * b.d)

\* x / float64(k) for a length k >= 0
FDivLen(x, k) ==
    IF IsNaN(x) THEN NaN
    ELSE IF IsInf(x) THEN x
    ELSE Norm(x.n, x.d * k)

----------------------------------------------------------------------------
(* Rule condition *)

AtleastOnce == "AtleastOnce"
AllTheTimes == "AllTheTimes"
OnAverage == "OnAverage"
InTotal == "InTotal"
MatchTypes == {AtleastOnce, AllTheTimes, OnAverage, InTotal}

ValueIsAbove == "ValueIsAbove"
ValueIsBelow == "ValueIsBelow"
ValueIsEq == "ValueIsEq"
ValueIsNotEq == "ValueIsNotEq"
CompareOps == {ValueIsAbove, ValueIsBelow, ValueIsEq, ValueIsNotEq}

Nil == "nil"

\* r.ruleCondition is never nil: NewPromRule refuses a rule without a condition
\* (line 69).  Target is a pointer: <<>> when nil, <<f>> otherwise.  TargetUnit
\* and the y-axis unit are the same, so Convert leaves the value alone.
targetVal ==
    IF Len(ruleCondition.Target) = 0
    THEN Fl(0)
    ELSE ruleCondition.Target[1]

matchType == ruleCondition.MatchType

compareOp == ruleCondition.CompareOp

QueryTypePromQL == "promql"
ErrNoPromQuery == "a promquery needs to be set for this rule to function"
ErrInvalidQuery == "invalid promql rule query"

\* lines 293-307, for a condition that is not nil
GetSelectedQuery(c) == IF c.SelectedQuery # "" THEN c.SelectedQuery ELSE "A"

\* lines 309-325, on the condition c
getPqlQuery(c) ==
    LET cq == c.CompositeQuery
        selectedQuery == GetSelectedQuery(c)
    IN  IF /\ cq.QueryType = QueryTypePromQL
           /\ DOMAIN cq.PromQueries # {}
           /\ selectedQuery \in DOMAIN cq.PromQueries
        THEN IF cq.PromQueries[selectedQuery].Query = ""
             THEN [query |-> "", err |-> ErrNoPromQuery]
             ELSE [query |-> cq.PromQueries[selectedQuery].Query, err |-> Nil]
        ELSE [query |-> "", err |-> ErrInvalidQuery]

----------------------------------------------------------------------------
(* shouldAlert: the match evaluator.  A series is [Metric, Floats]; the     *)
(* result is the sample (F, Metric) and the shouldAlert flag (ok).          *)

Sample(f, metric, ok) == [F |-> f, Metric |-> metric, ok |-> ok]

\* smpl.F <op> r.targetVal() for the four operators of the AtleastOnce branch
Satisfies(op, f, target) ==
    CASE op = ValueIsAbove -> FGt(f, target)
      [] op = ValueIsBelow -> FLt(f, target)
      [] op = ValueIsEq -> FEq(f, target)
      [] op = ValueIsNotEq -> FNe(f, target)
      [] OTHER -> FALSE

\* the test that breaks the scan of the AllTheTimes branch
Breaks(op, f, target) ==
    CASE op = ValueIsAbove -> FLe(f, target)
      [] op = ValueIsBelow -> FGe(f, target)
      [] op = ValueIsEq -> FNe(f, target)
      [] op = ValueIsNotEq -> FEq(f, target)
      [] OTHER -> FALSE

\* index of the first sample with the property, 0 when there is none
FirstIdx(floats, Test(_)) ==
    IF \E i \in 1..Len(floats) : Test(floats[i])
    THEN CHOOSE i \in 1..Len(floats) :
            Test(floats[i]) /\ \A j \in 1..(i - 1) : ~Test(floats[j])
    ELSE 0

RECURSIVE MinFrom(_, _, _)
MinFrom(floats, i, minValue) ==
    IF i > Len(floats) THEN minValue
    ELSE MinFrom(floats, i + 1, IF FLt(floats[i], minValue) THEN floats[i] ELSE minValue)

RECURSIVE MaxFrom(_, _, _)
MaxFrom(floats, i, maxValue) ==
    IF i > Len(floats) THEN maxValue
    ELSE MaxFrom(floats, i + 1, IF FGt(floats[i], maxValue) THEN floats[i] ELSE maxValue)

\* the sum of the samples that are not NaN
RECURSIVE SumFrom(_, _, _)
SumFrom(floats, i, sum) ==
    IF i > Len(floats) THEN sum
    ELSE SumFrom(floats, i + 1, IF IsNaN(floats[i]) THEN sum ELSE FAdd(sum, floats[i]))

shouldAlertAtleastOnce(series) ==
    LET op == compareOp
        Test(f) == Satisfies(op, f, targetVal)
        i == FirstIdx(series.Floats, Test)
    IN  IF i = 0 THEN Sample(Fl(0), Nil, FALSE)
        ELSE Sample(series.Floats[i], series.Metric, TRUE)

shouldAlertAllTheTimes(series) ==
    LET op == compareOp
        Test(f) == Breaks(op, f, targetVal)
        ok == FirstIdx(series.Floats, Test) = 0
        Finite(f) == ~IsInf(f) /\ ~IsNaN(f)
        k == FirstIdx(series.Floats, Finite)
    IN  CASE ok /\ op = ValueIsAbove ->
                Sample(MinFrom(series.Floats, 1, PosInf), series.Metric, TRUE)
          [] ok /\ op = ValueIsBelow ->
                Sample(MaxFrom(series.Floats, 1, NegInf), series.Metric, TRUE)
          [] ok /\ op = ValueIsNotEq /\ k # 0 ->
                Sample(series.Floats[k], series.Metric, TRUE)
          [] OTHER -> Sample(targetVal, series.Metric, ok)

shouldAlertOnAverage(series) ==
    LET sum == SumFrom(series.Floats, 1, Fl(0))
        avg == FDivLen(sum, Len(series.Floats))
    IN  Sample(avg, series.Metric, Satisfies(compareOp, avg, targetVal))

shouldAlertInTotal(series) ==
    LET sum == SumFrom(series.Floats, 1, Fl(0))
    IN  Sample(sum, series.Metric, Satisfies(compareOp, sum, targetVal))

shouldAlert(series) ==
    CASE matchType = AtleastOnce -> shouldAlertAtleastOnce(series)
      [] matchType = AllTheTimes -> shouldAlertAllTheTimes(series)
      [] matchType = OnAverage -> shouldAlertOnAverage(series)
      [] matchType = InTotal -> shouldAlertInTotal(series)
      [] OTHER -> Sample(Fl(0), Nil, FALSE)

----------------------------------------------------------------------------
(* Alert states, health, labels and fingerprints *)

\* StateFiring > StatePending > StateInactive
StateInactive == 0
StatePending == 1
StateFiring == 2
AlertStates == {StateInactive, StatePending, StateFiring}

\* AlertState.String()
StateString(s) ==
    CASE s = StateInactive -> "inactive"
      [] s = StatePending -> "pending"
      [] s = StateFiring -> "firing"

HealthUnknown == "unknown"
HealthGood == "ok"
HealthBad == "err"

ErrQuery == "RunAlertQuery failed"
ErrDuplicate == "vector contains metrics with the same labelset after applying alert labels"

\* how long a resolved alert is kept, in time units
resolvedRetention == 1

MetricName == "__name__"
AlertNameLabel == "alertname"
AlertRuleIdLabel == "ruleId"
RuleSourceLabel == "ruleSource"

Name == "rule"             \* r.name
ID == "1"                  \* r.id
GeneratorURL == "url"      \* r.GeneratorURL()
preferredChannels == <<"channel">>
labels == <<>>             \* r.labels: the rule defines no labels of its own
annotations == [summary |-> "{{$value}}"]

\* plabels.Builder.Del and .Set
Del(ls, name) == [n \in DOMAIN ls \ {name} |-> ls[n]]
Set(ls, name, value) ==
    [n \in DOMAIN ls \cup {name} |-> IF n = name THEN value ELSE ls[n]]

\* the template expander on the two templates used here: the text "{{$value}}"
\* renders the formatted value, any other text renders as itself
expand(text, value) == IF text = "{{$value}}" THEN <<"value", value>> ELSE text

\* lines 411-420 and 427: the final label set of a qualifying sample
FinalLabels(smpl) ==
    LET lb0 == Del(smpl.Metric, MetricName)
        lb1 == [n \in DOMAIN lb0 \cup DOMAIN labels |->
                   IF n \in DOMAIN labels THEN expand(labels[n], smpl.F) ELSE lb0[n]]
    IN  Set(Set(Set(lb1, AlertNameLabel, Name), AlertRuleIdLabel, ID),
            RuleSourceLabel, GeneratorURL)

\* Labels.Hash(): a positional code of the names and values that occur
StrCode(str) ==
    CASE str = "a" -> 1 [] str = "b" -> 2 [] str = "host" -> 1
      [] str = AlertNameLabel -> 10 [] str = AlertRuleIdLabel -> 100
      [] str = RuleSourceLabel -> 1000 [] OTHER -> 3

RECURSIVE HashOver(_, _)
HashOver(ls, names) ==
    IF names = {} THEN 0
    ELSE LET n == CHOOSE x \in names : TRUE
         IN  StrCode(n) * StrCode(ls[n]) + HashOver(ls, names \ {n})

Hash(ls) == HashOver(ls, DOMAIN ls)

\* lines 440-449
NewAlert(smpl, lbs, t) ==
    [ Labels |-> lbs,
      QueryResultLables |-> Del(smpl.Metric, MetricName),
      Annotations |-> [n \in DOMAIN annotations |-> expand(annotations[n], smpl.F)],
      ActiveAt |-> t, FiredAt |-> 0, ResolvedAt |-> 0, LastSentAt |-> 0, ValidUntil |-> 0,
      State |-> StatePending,
      Value |-> smpl.F,
      Receivers |-> preferredChannels,
      Missing |-> FALSE ]

\* State(): the maximum state over a map of alerts
StateOf(act) ==
    LET states == {act[fp].State : fp \in DOMAIN act} \cup {StateInactive}
    IN  CHOOSE maxState \in states : \A st \in states : maxState >= st

State == StateOf(active)

\* currentAlerts(): a copy of every tracked alert
currentAlerts == {active[fp] : fp \in DOMAIN active}

ActiveAlerts == {a \in currentAlerts : a.ResolvedAt = 0}

----------------------------------------------------------------------------
(* Eval, lines 366-532: the part that runs under the lock *)

\* BuildAlerts without the check of line 431: the later series replaces the earlier
RECURSIVE BuildAlertsUnchecked(_, _, _, _)
BuildAlertsUnchecked(result, t, i, acc) ==
    IF i > Len(result) THEN acc
    ELSE LET series == result[i]
             smpl == shouldAlert(series)
             lbs == FinalLabels(smpl)
             h == Hash(lbs)
         IN  IF Len(series.Floats) = 0 \/ ~smpl.ok
             THEN BuildAlertsUnchecked(result, t, i + 1, acc)
             ELSE BuildAlertsUnchecked(result, t, i + 1,
                      [ err |-> FALSE,
                        alerts |-> (h :> NewAlert(smpl, lbs, t)) @@ acc.alerts,
                        resultFPs |-> acc.resultFPs \cup {h} ])

\* lines 370-450: the alerts of this tick, the fingerprints seen, and whether
\* two qualifying series gave the same fingerprint
RECURSIVE BuildAlerts(_, _, _, _)
BuildAlerts(result, t, i, acc) ==
    IF i > Len(result) THEN acc
    ELSE LET series == result[i]
             smpl == shouldAlert(series)
             lbs == FinalLabels(smpl)
             h == Hash(lbs)
         IN  IF Len(series.Floats) = 0 \/ ~smpl.ok
             THEN BuildAlerts(result, t, i + 1, acc)
             ELSE IF h \in DOMAIN acc.alerts
             THEN [acc EXCEPT !.err = TRUE, !.resultFPs = @ \cup {h}]
             ELSE BuildAlerts(result, t, i + 1,
                      [ err |-> FALSE,
                        alerts |-> (h :> NewAlert(smpl, lbs, t)) @@ acc.alerts,
                        resultFPs |-> acc.resultFPs \cup {h} ])

NoAlerts == [err |-> FALSE, alerts |-> <<>>, resultFPs |-> {}]

\* KeepsTracked with the test of the state inverted: a tracked alert that is not
\* Inactive is replaced by the new record
KeepsTrackedInverted(act, h) == h \in DOMAIN act /\ act[h].State = StateInactive

\* KeepsTracked without the test of the state: an Inactive alert is refreshed too
KeepsTrackedAnyState(act, h) == h \in DOMAIN act

\* line 457: the tracked alert is kept and refreshed
KeepsTracked(act, h) == h \in DOMAIN act /\ act[h].State # StateInactive

\* lines 454-466
Merge(act, alerts) ==
    [h \in DOMAIN act \cup DOMAIN alerts |->
        IF h \notin DOMAIN alerts THEN act[h]
        ELSE IF KeepsTracked(act, h)
        THEN [act[h] EXCEPT !.Value = alerts[h].Value,
                            !.Annotations = alerts[h].Annotations,
                            !.Receivers = preferredChannels]
        ELSE alerts[h]]

\* ShouldDelete with >= for > in the retention test
ShouldDeleteEarly(a, t) ==
    a.State = StatePending \/ (a.ResolvedAt # 0 /\ t - a.ResolvedAt >= resolvedRetention)

\* ShouldDelete without the test for a pending alert
ShouldDeleteKeepsPending(a, t) ==
    a.ResolvedAt # 0 /\ t - a.ResolvedAt > resolvedRetention

\* line 479
ShouldDelete(a, t) ==
    a.State = StatePending \/ (a.ResolvedAt # 0 /\ t - a.ResolvedAt > resolvedRetention)

\* ShouldResolve without the test of line 482: an Inactive alert is resolved again
ShouldResolveAlways(a) == TRUE

\* line 482
ShouldResolve(a) == a.State # StateInactive

\* ShouldFire with > for >=
ShouldFireStrict(a, t) == a.State = StatePending /\ t - a.ActiveAt > holdDuration

\* line 498
ShouldFire(a, t) == a.State = StatePending /\ t - a.ActiveAt >= holdDuration

\* v3.RuleStateHistory
History(a, state, t, value) ==
    [ RuleID |-> ID, RuleName |-> Name,
      State |-> state, StateChanged |-> TRUE, UnixMilli |-> t,
      Labels |-> a.Labels, Fingerprint |-> Hash(a.QueryResultLables),
      Value |-> value,
      OverallState |-> "", OverallStateChanged |-> FALSE ]

Remove(act, fp) == [h \in DOMAIN act \ {fp} |-> act[h]]

\* NotQualifying without line 484: the alert is made Inactive, ResolvedAt is left
NotQualifyingUnstamped(acc, fp, t) ==
    LET a == acc.active[fp]
        resolved == [a EXCEPT !.State = StateInactive]
        kept == IF ShouldResolve(a) THEN [acc.active EXCEPT ![fp] = resolved] ELSE acc.active
    IN  [ active |-> IF ShouldDelete(a, t) THEN Remove(acc.active, fp) ELSE kept,
          items |-> IF ShouldResolve(a)
                    THEN Append(acc.items, History(a, "normal", t, Fl(0)))
                    ELSE acc.items ]

\* lines 476-496: a tracked alert whose fingerprint did not qualify
NotQualifying(acc, fp, t) ==
    LET a == acc.active[fp]
        resolved == [a EXCEPT !.State = StateInactive, !.ResolvedAt = t]
        kept == IF ShouldResolve(a) THEN [acc.active EXCEPT ![fp] = resolved] ELSE acc.active
    IN  [ active |-> IF ShouldDelete(a, t) THEN Remove(acc.active, fp) ELSE kept,
          items |-> IF ShouldResolve(a)
                    THEN Append(acc.items, History(a, "normal", t, Fl(0)))
                    ELSE acc.items ]

\* lines 498-515: a tracked alert whose fingerprint qualified
Qualifying(acc, fp, t) ==
    LET a == acc.active[fp]
        fired == [a EXCEPT !.State = StateFiring, !.FiredAt = t]
        state == IF a.Missing THEN "no_data" ELSE "firing"
    IN  IF ShouldFire(a, t)
        THEN [ active |-> [acc.active EXCEPT ![fp] = fired],
               items |-> Append(acc.items, History(a, state, t, a.Value)) ]
        ELSE acc

\* lines 471-517, visiting the fingerprints in the given order
RECURSIVE Transitions(_, _, _, _, _)
Transitions(order, i, fps, t, acc) ==
    IF i > Len(order) THEN acc
    ELSE Transitions(order, i + 1, fps, t,
             IF order[i] \notin fps
             THEN NotQualifying(acc, order[i], t)
             ELSE Qualifying(acc, order[i], t))

\* MarkOverall without the comparison of line 523
MarkOverallAlways(items, currentState, prev) ==
    [idx \in DOMAIN items |->
        [items[idx] EXCEPT
            !.OverallState = IF currentState = StateInactive
                             THEN "normal" ELSE StateString(currentState),
            !.OverallStateChanged = TRUE]]

\* lines 521-532
MarkOverall(items, currentState, prev) ==
    IF currentState = prev THEN items
    ELSE [idx \in DOMAIN items |->
            [items[idx] EXCEPT
                !.OverallState = IF currentState = StateInactive
                                 THEN "normal" ELSE StateString(currentState),
                !.OverallStateChanged = TRUE]]

\* the orders in which a range over a map may visit its keys
Orders(keys) ==
    {o \in [1..Cardinality(keys) -> keys] : \A i, j \in DOMAIN o : o[i] = o[j] => i = j}

----------------------------------------------------------------------------
(* Inputs *)

\* the metrics a query may return: the first two differ in the metric name only
Metrics ==
    << (MetricName :> "m1") @@ ("host" :> "a"),
       (MetricName :> "m2") @@ ("host" :> "a"),
       (MetricName :> "m1") @@ ("host" :> "b") >>

\* the samples a returned series of each metric may hold
FloatChoices ==
    << {<<Fl(0)>>, <<Fl(2)>>, <<Fl(0), Fl(3)>>},
       {<<Fl(2)>>},
       {<<>>, <<Fl(2)>>} >>

\* metric i is absent or holds one of its choices
SeriesOf(i) ==
    {<<>>} \cup {<<[Metric |-> Metrics[i], Floats |-> floats]>> : floats \in FloatChoices[i]}

RECURSIVE ResultsFrom(_)
ResultsFrom(i) ==
    IF i > Len(Metrics) THEN {<<>>}
    ELSE {head \o tail : head \in SeriesOf(i), tail \in ResultsFrom(i + 1)}

\* the results of RunAlertQuery
QueryResults == ResultsFrom(1)

Range(seq) == {seq[i] : i \in DOMAIN seq}

\* the fingerprints of the series of a result that hold samples and qualify, in
\* the order of the result
RECURSIVE Qualified(_)
Qualified(result) ==
    IF Len(result) = 0 THEN <<>>
    ELSE LET smpl == shouldAlert(Head(result))
         IN  (IF Len(Head(result).Floats) > 0 /\ smpl.ok
              THEN <<Hash(FinalLabels(smpl))>> ELSE <<>>)
             \o Qualified(Tail(result))

\* no call of shouldAlert yet
NoSeries == [Metric |-> Metrics[1], Floats |-> <<>>]

NoQuery == [failed |-> FALSE, qualified |-> <<>>, health |-> HealthUnknown]

\* the queries a posted rule may carry: a PromQL query, an empty one, one under a
\* name that is not selected, and one of another query type
CompositeQueries ==
    { [QueryType |-> QueryTypePromQL, PromQueries |-> ("A" :> [Query |-> "up"])],
      [QueryType |-> QueryTypePromQL, PromQueries |-> ("A" :> [Query |-> ""])],
      [QueryType |-> QueryTypePromQL, PromQueries |-> ("B" :> [Query |-> "up"])],
      [QueryType |-> "builder", PromQueries |-> ("A" :> [Query |-> "up"])] }

\* the conditions of the rules posted to NewPromRule
RuleConditions ==
    {[MatchType |-> AtleastOnce, CompareOp |-> ValueIsAbove, Target |-> <<Fl(1)>>,
      SelectedQuery |-> "", CompositeQuery |-> cq] : cq \in CompositeQueries}

\* lines 94-99: NewPromRule returns a rule only if getPqlQuery succeeds on it
NewPromRule(conditions) == {c \in conditions : getPqlQuery(c).err = Nil}

\* r.holdDuration: NewPromRule leaves it 0; the package may set it
HoldDurations == {0, 2}

ResendDelays == {2}
Intervals == {1, 3}

----------------------------------------------------------------------------
(* Init: the rule as NewPromRule returns it (lines 75-93), with holdDuration *)
(* as the package may have set it.                                           *)

NewRule(conditions) ==
    /\ holdDuration \in HoldDurations
    /\ ruleCondition \in NewPromRule(conditions)
    /\ opts \in [SendAlways : BOOLEAN]
    /\ reader = TRUE
    /\ mtx = "free"
    /\ health = HealthUnknown
    /\ lastError = Nil
    /\ active = <<>>
    /\ now = 0
    /\ pc = "idle"
    /\ ts = 0
    /\ query = NoQuery
    /\ resultFPs = {}
    /\ prevState = StateInactive
    /\ pre = <<>>
    /\ itemsToAdd = <<>>
    /\ sunk = <<>>
    /\ ret = Nil
    /\ sendArgs = Nil
    /\ notified = <<>>
    /\ rpc = "idle"
    /\ raced = FALSE
    /\ stateResult = StateString(StateInactive)
    /\ since = <<>>
    /\ lastSeries = NoSeries
    /\ lastSmpl = Sample(Fl(0), Nil, FALSE)

Init == NewRule(RuleConditions)

----------------------------------------------------------------------------
(* Eval *)

\* what a call leaves behind in the locals when it has returned
Locals ==
    /\ query' = NoQuery
    /\ resultFPs' = {}
    /\ prevState' = StateInactive
    /\ pre' = <<>>
    /\ itemsToAdd' = <<>>
    /\ sunk' = <<>>
    /\ ret' = Nil
    /\ sendArgs' = Nil
    /\ notified' = <<>>

\* lines 343-361: prevState is read without the lock, the query fails
EvalQueryFails(t) ==
    /\ pc = "idle"
    /\ getPqlQuery(ruleCondition).err = Nil      \* lines 351-354
    /\ prevState' = State
    /\ ts' = t
    /\ now' = t
    /\ query' = [failed |-> TRUE, qualified |-> <<>>, health |-> health]
    /\ pre' = active
    /\ pc' = "setHealth"
    /\ UNCHANGED <<since, match, cfg, rule, rdr>>
    /\ UNCHANGED <<resultFPs, itemsToAdd, sunk, ret, sendArgs, notified>>

\* line 358: SetHealth takes and releases the lock
EvalSetHealth ==
    /\ pc = "setHealth"
    /\ mtx = "free"
    /\ health' = HealthBad
    /\ pc' = "setLastError"
    /\ UNCHANGED <<since, match, cfg, mtx, lastError, active, rdr>>
    /\ UNCHANGED <<now, ts, query, resultFPs, prevState, pre, itemsToAdd, sunk, ret, sendArgs, notified>>

\* EvalSetLastError without the call of SetLastError
EvalSetLastErrorSkipped ==
    /\ pc = "setLastError"
    /\ mtx = "free"
    /\ ret' = ErrQuery
    /\ pc' = "return"
    /\ UNCHANGED <<since, match, cfg, rule, rdr>>
    /\ UNCHANGED <<now, ts, query, resultFPs, prevState, pre, itemsToAdd, sunk, sendArgs, notified>>

\* lines 359-360: SetLastError takes and releases the lock; Eval returns the error
EvalSetLastError ==
    /\ pc = "setLastError"
    /\ mtx = "free"
    /\ lastError' = ErrQuery
    /\ ret' = ErrQuery
    /\ pc' = "return"
    /\ UNCHANGED <<since, match, cfg, mtx, health, active, rdr>>
    /\ UNCHANGED <<now, ts, query, resultFPs, prevState, pre, itemsToAdd, sunk, sendArgs, notified>>

\* lines 343-363: prevState is read without the lock, the query returns
\* without an error, and Eval takes the lock
EvalQuery(t) ==
    /\ pc = "idle"
    /\ getPqlQuery(ruleCondition).err = Nil      \* lines 351-354
    /\ mtx = "free"
    /\ prevState' = State
    /\ ts' = t
    /\ now' = t
    /\ mtx' = "sched"
    /\ pre' = active
    /\ pc' = "locked"
    /\ UNCHANGED <<since, match, cfg, health, lastError, active, rdr>>
    /\ UNCHANGED <<query, resultFPs, itemsToAdd, sunk, ret, sendArgs, notified>>

\* EvalDuplicate with the alerts built so far merged into r.active before the
\* duplicate is noticed
EvalDuplicateAfterMerge(result) ==
    /\ pc = "locked"
    /\ \E built \in {BuildAlerts(result, ts, 1, NoAlerts)} :
           /\ built.err
           /\ resultFPs' = built.resultFPs
           /\ active' = Merge(active, built.alerts)
    /\ query' = [failed |-> FALSE, qualified |-> Qualified(result), health |-> health]
    /\ health' = HealthBad
    /\ lastError' = ErrDuplicate
    /\ ret' = ErrDuplicate
    /\ pc' = "return"
    /\ UNCHANGED <<since, match, cfg, mtx, rdr>>
    /\ UNCHANGED <<now, ts, prevState, pre, itemsToAdd, sunk, sendArgs, notified>>

\* lines 366-438: two qualifying series have the same fingerprint.  The series
\* the query returned are drawn here, where they are first read.
EvalDuplicate(result) ==
    /\ pc = "locked"
    /\ \E built \in {BuildAlerts(result, ts, 1, NoAlerts)} :
           /\ built.err
           /\ resultFPs' = built.resultFPs
    /\ query' = [failed |-> FALSE, qualified |-> Qualified(result), health |-> health]
    /\ health' = HealthBad
    /\ lastError' = ErrDuplicate
    /\ ret' = ErrDuplicate
    /\ pc' = "return"
    /\ UNCHANGED <<since, match, cfg, mtx, active, rdr>>
    /\ UNCHANGED <<now, ts, prevState, pre, itemsToAdd, sunk, sendArgs, notified>>

\* EvalMerge without lines 518-519: health and lastError stay what they were
EvalMergeKeepsHealth(result) ==
    /\ pc = "locked"
    /\ \E built \in {BuildAlerts(result, ts, 1, NoAlerts)} :
           /\ ~built.err
           /\ resultFPs' = built.resultFPs
           /\ \E merged \in {Merge(active, built.alerts)} :
              \E order \in Orders(DOMAIN merged) :
              \E done \in {Transitions(order, 1, built.resultFPs, ts,
                                       [active |-> merged, items |-> <<>>])} :
                  /\ active' = done.active
                  /\ itemsToAdd' = MarkOverall(done.items, StateOf(done.active), prevState)
    /\ query' = [failed |-> FALSE, qualified |-> Qualified(result), health |-> health]
    /\ since' = [fp \in Range(query'.qualified) |->
                    IF fp \in DOMAIN since THEN since[fp] ELSE ts]
    /\ ret' = Nil
    /\ raced' = (raced \/ rpc = "State")
    /\ pc' = IF Len(itemsToAdd') > 0 /\ reader THEN "sink" ELSE "return"
    /\ UNCHANGED <<match, cfg, mtx, health, lastError, rpc, stateResult>>
    /\ UNCHANGED <<now, ts, prevState, pre, sunk, sendArgs, notified>>

\* lines 366-534: the merge, the transitions and the history records; the step
\* ends where AddRuleStateHistory is called or, with nothing to add, at the return
EvalMerge(result) ==
    /\ pc = "locked"
    /\ \E built \in {BuildAlerts(result, ts, 1, NoAlerts)} :
           /\ ~built.err
           /\ resultFPs' = built.resultFPs
           /\ \E merged \in {Merge(active, built.alerts)} :
              \E order \in Orders(DOMAIN merged) :
              \E done \in {Transitions(order, 1, built.resultFPs, ts,
                                       [active |-> merged, items |-> <<>>])} :
                  /\ active' = done.active
                  /\ itemsToAdd' = MarkOverall(done.items, StateOf(done.active), prevState)
    /\ query' = [failed |-> FALSE, qualified |-> Qualified(result), health |-> health]
    /\ since' = [fp \in Range(query'.qualified) |->
                    IF fp \in DOMAIN since THEN since[fp] ELSE ts]
    /\ health' = HealthGood
    /\ lastError' = Nil
    /\ ret' = Nil
    /\ raced' = (raced \/ rpc = "State")
    /\ pc' = IF Len(itemsToAdd') > 0 /\ reader THEN "sink" ELSE "return"
    /\ UNCHANGED <<match, cfg, mtx, rpc, stateResult>>
    /\ UNCHANGED <<now, ts, prevState, pre, sunk, sendArgs, notified>>

\* lines 535-539: AddRuleStateHistory returns; its error is only logged
EvalSinkReturn ==
    /\ pc = "sink"
    /\ sunk' = Append(sunk, itemsToAdd)
    /\ pc' = "return"
    /\ UNCHANGED <<since, match, cfg, rule, rdr>>
    /\ UNCHANGED <<now, ts, query, resultFPs, prevState, pre, itemsToAdd, ret, sendArgs, notified>>

\* Eval returns; the Unlock deferred at line 364 runs if the lock was taken
EvalReturn ==
    /\ pc = "return"
    /\ mtx' = "free"
    /\ pc' = "idle"
    /\ Locals
    /\ UNCHANGED <<since, match, cfg, health, lastError, active, rdr>>
    /\ UNCHANGED <<now, ts>>

\* a tick is later than every earlier one
Ticks == (now + 1)..MaxTime

EvalSteps ==
    \/ EvalSetHealth
    \/ EvalSetLastError
    \/ pc = "locked" /\ \E result \in QueryResults : EvalDuplicate(result)
    \/ pc = "locked" /\ \E result \in QueryResults : EvalMerge(result)
    \/ EvalSinkReturn
    \/ EvalReturn

Eval ==
    \/ pc = "idle" /\ \E t \in Ticks : EvalQueryFails(t)
    \/ pc = "idle" /\ \E t \in Ticks : EvalQuery(t)
    \/ EvalSteps

----------------------------------------------------------------------------
(* SendAlerts and ForEachActiveAlert *)

\* Alert.needsSending: never sent, or sent at least resendDelay ago
needsSending(a, t, resendDelay) ==
    a.LastSentAt = 0 \/ t - a.LastSentAt >= resendDelay

\* ShouldSend without the test of line 278: every alert is sent
ShouldSendAll(a, t, resendDelay) == TRUE

\* line 278
ShouldSend(a, t, resendDelay) == opts.SendAlways \/ needsSending(a, t, resendDelay)

\* Stamp without lines 282-284: delta is always resendDelay
StampResendDelay(a, t, resendDelay, interval) ==
    [a EXCEPT !.LastSentAt = t, !.ValidUntil = t + 4 * resendDelay]

\* lines 279-285
Stamp(a, t, resendDelay, interval) ==
    LET delta == IF interval > resendDelay THEN interval ELSE resendDelay
    IN  [a EXCEPT !.LastSentAt = t, !.ValidUntil = t + 4 * delta]

\* lines 270-272 with the callback of lines 277-289, visiting in the given order
RECURSIVE ForEach(_, _, _, _, _, _)
ForEach(order, i, t, resendDelay, interval, acc) ==
    IF i > Len(order) THEN acc
    ELSE LET fp == order[i]
             a == acc.active[fp]
             anew == Stamp(a, t, resendDelay, interval)
         IN  ForEach(order, i + 1, t, resendDelay, interval,
                 IF ShouldSend(a, t, resendDelay)
                 THEN [ active |-> [acc.active EXCEPT ![fp] = anew],
                        alerts |-> Append(acc.alerts, anew) ]
                 ELSE acc)

\* lines 276-290: ForEachActiveAlert takes the lock, runs the callback on every
\* alert and releases the lock; the step ends where notifyFunc is called
ForEachActiveAlert(t, resendDelay, interval) ==
    /\ pc = "idle"
    /\ mtx = "free"
    /\ ts' = t
    /\ now' = t
    /\ sendArgs' = [resendDelay |-> resendDelay, interval |-> interval]
    /\ pre' = active
    /\ \E order \in Orders(DOMAIN active) :
       \E done \in {ForEach(order, 1, t, resendDelay, interval,
                            [active |-> active, alerts |-> <<>>])} :
           /\ active' = done.active
           /\ notified' = done.alerts
    /\ pc' = "notify"
    /\ UNCHANGED <<since, match, cfg, mtx, health, lastError, rdr>>
    /\ UNCHANGED <<query, resultFPs, prevState, itemsToAdd, sunk, ret>>

\* line 290: notifyFunc returns, and so does SendAlerts
NotifyReturn ==
    /\ pc = "notify"
    /\ pc' = "idle"
    /\ Locals
    /\ UNCHANGED <<since, match, cfg, rule, rdr>>
    /\ UNCHANGED <<now, ts>>

\* SendAlerts is called after a tick, with the time of that tick
SendTimes == {t \in {now} : t >= 1}

SendAlerts ==
    \/ /\ pc = "idle"
       /\ \E t \in SendTimes : \E resendDelay \in ResendDelays : \E interval \in Intervals :
             ForEachActiveAlert(t, resendDelay, interval)
    \/ NotifyReturn

----------------------------------------------------------------------------
(* The read accessors, called from another thread *)

Fatal == "fatal error: concurrent map iteration and map write"

\* lines 221-230: State() ranges over r.active without taking the lock
StateCall ==
    /\ rpc = "idle"
    /\ rpc' = "State"
    /\ raced' = FALSE
    /\ UNCHANGED <<since, match, cfg, rule, sched, stateResult>>

\* State() returns.  If the map was written meanwhile the read was a data race:
\* the maximum is taken over a torn view of the map, or the runtime stops the
\* program.
StateReturn ==
    /\ rpc = "State"
    /\ raced' = FALSE
    /\ IF raced
       THEN \/ /\ stateResult' \in {StateString(st) : st \in AlertStates}
               /\ rpc' = "idle"
               /\ UNCHANGED <<since, match, cfg, rule, sched>>
            \/ /\ stateResult' = Fatal
               /\ rpc' = Fatal
               /\ pc' = Fatal
               /\ UNCHANGED <<since, match, cfg, rule, now, ts, query, resultFPs, prevState, pre,
                              itemsToAdd, sunk, ret, sendArgs, notified>>
       ELSE /\ stateResult' = StateString(State)
            /\ rpc' = "idle"
            /\ UNCHANGED <<since, match, cfg, rule, sched>>

LockedAccessors == {"currentAlerts", "Health", "LastError"}

\* lines 155-171 and 232-243: the accessor takes the lock
AccessorCall(accessor) ==
    /\ rpc = "idle"
    /\ mtx = "free"
    /\ mtx' = "reader"
    /\ rpc' = accessor
    /\ UNCHANGED <<since, match, cfg, health, lastError, active, sched, raced, stateResult>>

\* the accessor has copied its data out and releases the lock
AccessorReturn ==
    /\ rpc \in LockedAccessors
    /\ mtx' = "free"
    /\ rpc' = "idle"
    /\ UNCHANGED <<since, match, cfg, health, lastError, active, sched, raced, stateResult>>

Readers ==
    \/ StateCall
    \/ StateReturn
    \/ \E accessor \in LockedAccessors : AccessorCall(accessor)
    \/ AccessorReturn

----------------------------------------------------------------------------
(* Specifications *)

\* the scheduler thread alone: ticks and notifications, one call at a time
Next == Eval \/ SendAlerts

Spec == Init /\ [][Next]_vars

\* the scheduler thread and a reader thread over the first ConcTime ticks, for a
\* rule without hold duration
ConcTicks == {t \in Ticks : t <= ConcTime}

InitConc == Init /\ holdDuration = 0

EvalConc ==
    \/ pc = "idle" /\ \E t \in ConcTicks : EvalQueryFails(t)
    \/ pc = "idle" /\ \E t \in ConcTicks : EvalQuery(t)
    \/ EvalSteps

NextConc == EvalConc \/ SendAlerts \/ Readers

SpecConc == InitConc /\ [][NextConc]_vars

----------------------------------------------------------------------------
(* The match evaluator on its own: shouldAlert is called with any series of *)
(* up to MaxSamples samples on a rule with any match type, operator and     *)
(* target.                                                                  *)

\* the sample values: below, at and above the targets, and NaN
SampleValues == {Fl(0), Fl(1), Fl(2), Fl(3), NaN}

SeqsUpTo(S, n) == UNION {[1..k -> S] : k \in 0..n}

MatchSeries ==
    {[Metric |-> Metrics[1], Floats |-> floats] : floats \in SeqsUpTo(SampleValues, MaxSamples)}

\* Target is nil or points to a number
Targets == {<<>>, <<Fl(1)>>, <<Fl(2)>>}

MatchConditions ==
    {[MatchType |-> m, CompareOp |-> op, Target |-> target,
      SelectedQuery |-> "", CompositeQuery |-> cq] :
        m \in MatchTypes, op \in CompareOps, target \in Targets, cq \in CompositeQueries}

InitMatch == NewRule(MatchConditions) /\ holdDuration = 0 /\ ~opts.SendAlways

\* line 380: alertSmpl, shouldAlert := r.shouldAlert(series)
ShouldAlertCall ==
    /\ pc = "idle"
    /\ \E s \in MatchSeries :
           /\ lastSeries' = s
           /\ lastSmpl' = shouldAlert(s)
    /\ UNCHANGED <<cfg, rule, sched, rdr, since>>

NextMatch == ShouldAlertCall

SpecMatch == InitMatch /\ [][NextMatch]_vars

----------------------------------------------------------------------------
(* Properties.  A tick is judged where Eval returns (pc = "return"): pre is the *)
(* store as the call found it, active the store it leaves, query what the      *)
(* query interface gave it, itemsToAdd the history records it produced.        *)

Returning == pc = "return"
Succeeded == pc = "return" /\ ret = Nil

\* the fingerprints that qualified in the running tick
QualifiedFPs == Range(query.qualified)

\* the history records of the tick for a label set, with the given state
ItemsFor(lbs, state) ==
    {i \in DOMAIN itemsToAdd : itemsToAdd[i].Labels = lbs /\ itemsToAdd[i].State = state}

\* the qualifying fingerprint fp was Pending when the transitions ran: tracked and
\* Pending before the tick, or entered in this tick
PendingSince(fp) ==
    IF fp \in DOMAIN pre /\ pre[fp].State # StateInactive
    THEN IF pre[fp].State = StatePending THEN pre[fp].ActiveAt ELSE -1
    ELSE ts

HasDuplicate(fps) == \E i, j \in DOMAIN fps : i # j /\ fps[i] = fps[j]

\* C1: in a tick that runs the transitions, a Pending alert whose fingerprint
\* qualifies becomes Firing with FiredAt = ts and exactly one "firing" record if
\* ts - ActiveAt >= holdDuration, and otherwise stays Pending with no such record.
C1_PendingFiresAtHold ==
    Succeeded =>
        \A fp \in QualifiedFPs :
            PendingSince(fp) >= 0 =>
                /\ fp \in DOMAIN active
                /\ IF ts - PendingSince(fp) >= holdDuration
                   THEN /\ active[fp].State = StateFiring
                        /\ active[fp].FiredAt = ts
                        /\ Cardinality(ItemsFor(active[fp].Labels, "firing")) = 1
                   ELSE /\ active[fp].State = StatePending
                        /\ active[fp].FiredAt = 0
                        /\ ItemsFor(active[fp].Labels, "firing") = {}

\* a Pending alert of an earlier tick fires once a positive hold duration has passed
C1_Witness ==
    /\ Succeeded
    /\ holdDuration > 0
    /\ \E fp \in QualifiedFPs \cap DOMAIN pre :
          /\ pre[fp].State = StatePending
          /\ ts - pre[fp].ActiveAt >= holdDuration
          /\ active[fp].State = StateFiring
          /\ active[fp].FiredAt = ts

\* C2: a Firing alert whose fingerprint does not qualify in a successful tick ends
\* the tick tracked, Inactive, with ResolvedAt = ts; an Inactive alert that still
\* does not qualify is kept as it is while ts - ResolvedAt <= resolvedRetention and
\* is deleted in the tick where ts - ResolvedAt > resolvedRetention.
C2_ResolvedThenRetained ==
    Succeeded =>
        \A fp \in DOMAIN pre \ QualifiedFPs :
            /\ pre[fp].State = StateFiring =>
                  /\ fp \in DOMAIN active
                  /\ active[fp].State = StateInactive
                  /\ active[fp].ResolvedAt = ts
            /\ pre[fp].State = StateInactive /\ ts - pre[fp].ResolvedAt <= resolvedRetention =>
                  /\ fp \in DOMAIN active
                  /\ active[fp] = pre[fp]
            /\ pre[fp].State = StateInactive /\ ts - pre[fp].ResolvedAt > resolvedRetention =>
                  fp \notin DOMAIN active

\* a resolved alert is deleted when its retention has passed
C2_Witness ==
    /\ Succeeded
    /\ \E fp \in DOMAIN pre \ QualifiedFPs :
          /\ pre[fp].State = StateInactive
          /\ pre[fp].FiredAt # 0
          /\ ts - pre[fp].ResolvedAt > resolvedRetention
          /\ fp \notin DOMAIN active

\* C3: a Pending alert whose fingerprint does not qualify in a successful tick is
\* gone when Eval returns: not in r.active, not among currentAlerts or
\* ActiveAlerts, and a later SendAlerts hands out only alerts that are tracked.
C3_PendingDeleted ==
    /\ Succeeded =>
          \A fp \in DOMAIN pre \ QualifiedFPs :
              pre[fp].State = StatePending =>
                  /\ fp \notin DOMAIN active
                  /\ \A a \in currentAlerts \cup ActiveAlerts : a.Labels # pre[fp].Labels
    /\ pc = "notify" =>
          \A i \in DOMAIN notified :
              \E fp \in DOMAIN pre : pre[fp].Labels = notified[i].Labels

C3_Witness ==
    /\ Succeeded
    /\ \E fp \in DOMAIN pre \ QualifiedFPs :
          /\ pre[fp].State = StatePending
          /\ fp \notin DOMAIN active
    /\ DOMAIN active # {}

\* C4: while a fingerprint qualifies in successful tick after successful tick, the
\* store holds one record for it whose ActiveAt is the time of the first of these
\* ticks; a tick that finds the record refreshes Value, Annotations and Receivers
\* and leaves ActiveAt, LastSentAt and ValidUntil alone, and FiredAt unless the
\* alert fires in that tick.
C4_SameRecordAcrossTicks ==
    /\ \A fp \in DOMAIN since :
          /\ fp \in DOMAIN active
          /\ active[fp].ActiveAt = since[fp]
          /\ Cardinality({h \in DOMAIN active : active[h].Labels = active[fp].Labels}) = 1
    /\ Succeeded =>
          \A fp \in QualifiedFPs \cap DOMAIN pre :
              pre[fp].State # StateInactive =>
                  /\ active[fp].ActiveAt = pre[fp].ActiveAt
                  /\ active[fp].LastSentAt = pre[fp].LastSentAt
                  /\ active[fp].ValidUntil = pre[fp].ValidUntil
                  /\ active[fp].ResolvedAt = pre[fp].ResolvedAt
                  /\ active[fp].Labels = pre[fp].Labels
                  /\ \/ active[fp].FiredAt = pre[fp].FiredAt
                     \/ pre[fp].State = StatePending /\ active[fp].FiredAt = ts

\* a later tick of a run refreshes the value of the record and leaves it in place
C4_Witness ==
    /\ Succeeded
    /\ \E fp \in QualifiedFPs \cap DOMAIN pre :
          /\ fp \in DOMAIN since
          /\ since[fp] < ts
          /\ pre[fp].LastSentAt # 0
          /\ active[fp].Value # pre[fp].Value
          /\ active[fp].ActiveAt = since[fp]

\* C5: when two qualifying series of a tick have the same fingerprint, Eval returns
\* the duplicate-labelset error with health Bad and LastError that error, and
\* nothing has been handed to the history sink.
C5_DuplicateIsAnError ==
    Returning /\ HasDuplicate(query.qualified) =>
        /\ ret = ErrDuplicate
        /\ health = HealthBad
        /\ lastError = ErrDuplicate
        /\ itemsToAdd = <<>>
        /\ sunk = <<>>

C5_Witness ==
    /\ Returning
    /\ HasDuplicate(query.qualified)
    /\ ret = ErrDuplicate
    /\ health = HealthBad

\* C6: a tick with two qualifying series of the same fingerprint leaves the store
\* as it found it: the same fingerprints, every field of every alert the same.
C6_DuplicateLeavesStore ==
    Returning /\ HasDuplicate(query.qualified) => active = pre

\* the tick that is dropped would have entered a new alert and removed a pending one
C6_Witness ==
    /\ Returning
    /\ HasDuplicate(query.qualified)
    /\ QualifiedFPs \ DOMAIN pre # {}
    /\ \E fp \in DOMAIN pre \ QualifiedFPs : pre[fp].State = StatePending
    /\ active = pre

\* C7: when the query fails, Eval returns the error with health Bad and LastError
\* that error, the store is as the call found it, and no history record was
\* produced or handed to the sink.
C7_QueryErrorLeavesStore ==
    Returning /\ query.failed =>
        /\ ret = ErrQuery
        /\ health = HealthBad
        /\ lastError = ErrQuery
        /\ active = pre
        /\ itemsToAdd = <<>>
        /\ sunk = <<>>

C7_Witness ==
    /\ Returning
    /\ query.failed
    /\ \E fp \in DOMAIN pre : pre[fp].State = StateFiring
    /\ active = pre
    /\ lastError = ErrQuery

\* C8: no external call runs while the rule's mutex is held: neither
\* AddRuleStateHistory in Eval nor notifyFunc in SendAlerts.
C8_NoCallUnderLock ==
    /\ pc = "sink" => mtx = "free"
    /\ pc = "notify" => mtx = "free"

\* C9: State() never ranges over r.active while the thread that runs Eval is in
\* its locked phase.
C9_StateReadsUnderLock ==
    ~(rpc = "State" /\ mtx = "sched")

\* C10: a "normal" history record is produced only for an alert that had fired
\* when its fingerprint stopped qualifying; none is produced for a Pending alert.
C10_NormalOnlyAfterFiring ==
    Succeeded =>
        \A fp \in DOMAIN pre \ QualifiedFPs :
            pre[fp].State = StatePending => ItemsFor(pre[fp].Labels, "normal") = {}


\* C11: for a rule as NewPromRule builds it (holdDuration is not set, so it is 0),
\* the first successful tick in which an untracked fingerprint qualifies ends with
\* one alert for it, Pending, with ActiveAt = ts and the representative value.
C11_FirstTickPending ==
    Succeeded /\ holdDuration = 0 =>
        \A fp \in QualifiedFPs \ DOMAIN pre :
            /\ fp \in DOMAIN active
            /\ active[fp].State = StatePending
            /\ active[fp].ActiveAt = ts


\* C12: in a successful tick every history record of the tick carries
\* OverallStateChanged = TRUE and OverallState = the aggregate state after the tick
\* ("normal" for Inactive) if that aggregate differs from the aggregate before the
\* tick, and no record carries the flag or a label if it does not.
C12_OverallStateMarked ==
    Succeeded =>
        LET after == StateOf(active)
            changed == after # StateOf(pre)
            label == IF after = StateInactive THEN "normal" ELSE StateString(after)
        IN  \A i \in DOMAIN itemsToAdd :
                /\ itemsToAdd[i].OverallStateChanged = changed
                /\ itemsToAdd[i].OverallState = IF changed THEN label ELSE ""

\* the last firing alert resolves: the aggregate falls to Inactive
C12_Witness ==
    /\ Succeeded
    /\ StateOf(pre) = StateFiring
    /\ StateOf(active) = StateInactive
    /\ Len(itemsToAdd) > 0
    /\ \A i \in DOMAIN itemsToAdd :
          itemsToAdd[i].OverallStateChanged /\ itemsToAdd[i].OverallState = "normal"


\* C13: when Eval returns from a successful tick, health is Good and LastError is
\* nil, whatever the rule's health was before; when it returns from a failed tick,
\* health is Bad and LastError is the error the tick returned.
C13_HealthIsLastTick ==
    Returning =>
        IF ret = Nil
        THEN health = HealthGood /\ lastError = Nil
        ELSE health = HealthBad /\ lastError = ret /\ ret \in {ErrQuery, ErrDuplicate}

\* a tick succeeds on a rule that an earlier failed tick left with health Bad
C13_Witness ==
    /\ Succeeded
    /\ query.health = HealthBad
    /\ health = HealthGood
    /\ lastError = Nil


\* the samples of the series shouldAlert was last called with
Floats == lastSeries.Floats
Called == Len(Floats) > 0

\* C14: on a series that is not empty, AtleastOnce qualifies iff some sample
\* satisfies the operator against the target, and AllTheTimes qualifies iff every
\* sample does.
C14_MatchIff ==
    Called =>
        /\ matchType = AtleastOnce =>
              lastSmpl.ok = (\E i \in DOMAIN Floats : Satisfies(compareOp, Floats[i], targetVal))
        /\ matchType = AllTheTimes =>
              lastSmpl.ok = (\A i \in DOMAIN Floats : Satisfies(compareOp, Floats[i], targetVal))

\* the series without its NaN samples
WithoutNaN(s) ==
    LET NotNaN(f) == ~IsNaN(f)
    IN  [s EXCEPT !.Floats = SelectSeq(s.Floats, NotNaN)]

\* C15: under OnAverage the outcome and the representative value of a series are
\* those of the series with its NaN samples removed.
C15_AverageSkipsNaN ==
    Called /\ matchType = OnAverage =>
        /\ lastSmpl.ok = shouldAlertOnAverage(WithoutNaN(lastSeries)).ok
        /\ lastSmpl.F = shouldAlertOnAverage(WithoutNaN(lastSeries)).F

\* C16: under OnAverage a series whose samples are all NaN never qualifies with
\* the representative value 0.
C16_AllNaNNeverZero ==
    Called /\ matchType = OnAverage /\ (\A i \in DOMAIN Floats : IsNaN(Floats[i])) =>
        ~(lastSmpl.ok /\ lastSmpl.F = Fl(0))


\* the alert of the store with fingerprint fp is in the batch handed to notifyFunc
InBatch(fp) == \E i \in DOMAIN notified : notified[i].Labels = pre[fp].Labels

\* C17: when SendAlerts calls notifyFunc, with SendAlways = FALSE an alert that was
\* sent less than resendDelay before ts is not in the batch and keeps its record;
\* with SendAlways = TRUE the batch holds a snapshot of every alert of the store,
\* whatever its state or LastSentAt.
C17_ResendGate ==
    pc = "notify" =>
        /\ ~opts.SendAlways =>
              \A fp \in DOMAIN pre :
                  pre[fp].LastSentAt # 0 /\ ts - pre[fp].LastSentAt < sendArgs.resendDelay =>
                      ~InBatch(fp) /\ active[fp] = pre[fp]
        /\ opts.SendAlways =>
              /\ DOMAIN active = DOMAIN pre
              /\ Len(notified) = Cardinality(DOMAIN active)
              /\ \A fp \in DOMAIN active : \E i \in DOMAIN notified : notified[i] = active[fp]

\* one alert was sent a moment ago and is held back, another is sent
C17_Witness ==
    /\ pc = "notify"
    /\ ~opts.SendAlways
    /\ \E fp \in DOMAIN pre :
          /\ pre[fp].LastSentAt # 0
          /\ ts - pre[fp].LastSentAt < sendArgs.resendDelay
          /\ ~InBatch(fp)
    /\ Len(notified) > 0


\* the later of the two, as a number of time units
MaxOf(a, b) == IF a > b THEN a ELSE b

\* C18: when SendAlerts calls notifyFunc, every alert it decided to send has
\* LastSentAt = ts and ValidUntil = ts + 4 * max(resendDelay, interval) in the
\* store and in the snapshot of the batch, and nothing else of it changed; an
\* alert it did not send has the record it had.
C18_StampOnSend ==
    pc = "notify" =>
        \A fp \in DOMAIN pre :
            /\ fp \in DOMAIN active
            /\ IF ShouldSend(pre[fp], ts, sendArgs.resendDelay)
               THEN /\ active[fp] =
                          [pre[fp] EXCEPT
                              !.LastSentAt = ts,
                              !.ValidUntil = ts + 4 * MaxOf(sendArgs.resendDelay, sendArgs.interval)]
                    /\ \E i \in DOMAIN notified : notified[i] = active[fp]
               ELSE /\ active[fp] = pre[fp]
                    /\ ~InBatch(fp)

\* a call with interval > resendDelay that sends one alert and holds back another
C18_Witness ==
    /\ pc = "notify"
    /\ sendArgs.interval > sendArgs.resendDelay
    /\ \E fp \in DOMAIN pre :
          /\ InBatch(fp)
          /\ active[fp].LastSentAt = ts
          /\ active[fp].ValidUntil = ts + 4 * sendArgs.interval
          /\ pre[fp].ValidUntil # active[fp].ValidUntil
    /\ \E fp \in DOMAIN pre :
          /\ ~InBatch(fp)
          /\ active[fp].LastSentAt # 0
          /\ active[fp].LastSentAt < ts


\* C19: an Inactive alert whose fingerprint qualifies again in a successful tick is
\* replaced by a new record: ActiveAt = ts, ResolvedAt and LastSentAt zero, and the
\* state and FiredAt of an alert that became Pending in this tick (Firing with
\* FiredAt = ts if the hold duration is 0, else Pending with FiredAt zero).
C19_InactiveReplaced ==
    Succeeded =>
        \A fp \in QualifiedFPs \cap DOMAIN pre :
            pre[fp].State = StateInactive =>
                /\ fp \in DOMAIN active
                /\ active[fp].ActiveAt = ts
                /\ active[fp].ResolvedAt = 0
                /\ active[fp].LastSentAt = 0
                /\ active[fp].ValidUntil = 0
                /\ IF holdDuration = 0
                   THEN active[fp].State = StateFiring /\ active[fp].FiredAt = ts
                   ELSE active[fp].State = StatePending /\ active[fp].FiredAt = 0

\* a resolved alert that had fired and had been sent qualifies again
C19_Witness ==
    /\ Succeeded
    /\ \E fp \in QualifiedFPs \cap DOMAIN pre :
          /\ pre[fp].State = StateInactive
          /\ pre[fp].FiredAt # 0
          /\ pre[fp].LastSentAt # 0
          /\ pre[fp].ActiveAt < ts
          /\ active[fp].ActiveAt = ts
          /\ active[fp].LastSentAt = 0


\* C20: in every state, an alert of the store is Inactive iff its ResolvedAt is
\* set, and so ActiveAlerts() returns the tracked alerts that are Pending or Firing.
C20_InactiveIffResolved ==
    /\ \A fp \in DOMAIN active :
          (active[fp].State = StateInactive) <=> (active[fp].ResolvedAt # 0)
    /\ ActiveAlerts = {a \in currentAlerts : a.State \in {StatePending, StateFiring}}

\* after Eval and SendAlerts calls the store holds a resolved alert, which
\* ActiveAlerts() leaves out, next to one that is not resolved
C20_Witness ==
    /\ pc = "idle"
    /\ \E fp \in DOMAIN active :
          /\ active[fp].State = StateInactive
          /\ active[fp].ResolvedAt # 0
          /\ active[fp].LastSentAt >= active[fp].ResolvedAt
    /\ ActiveAlerts # {}
    /\ ActiveAlerts # currentAlerts


\* the "normal" records of the tick for the alert that had fingerprint fp
NormalItems(fp) == ItemsFor(pre[fp].Labels, "normal")

\* C21: in a tick that runs the transitions, a tracked alert that is not yet
\* resolved and whose fingerprint does not qualify gets exactly one record with
\* state "normal" and StateChanged = TRUE, stamped with the time of the tick and
\* handed to the sink; an alert that is already resolved and is retained or
\* deleted in the tick gets none, and neither does an alert that qualifies.
C21_OneNormalRecord ==
    Succeeded =>
        /\ \A fp \in DOMAIN pre \ QualifiedFPs :
              IF pre[fp].State # StateInactive
              THEN /\ Cardinality(NormalItems(fp)) = 1
                   /\ \A i \in NormalItems(fp) :
                          /\ itemsToAdd[i].StateChanged
                          /\ itemsToAdd[i].UnixMilli = ts
                          /\ sunk = <<itemsToAdd>>
              ELSE NormalItems(fp) = {}
        /\ \A i \in DOMAIN itemsToAdd :
              itemsToAdd[i].State = "normal" =>
                  \E fp \in DOMAIN pre \ QualifiedFPs : itemsToAdd[i].Labels = pre[fp].Labels

\* one firing alert stops qualifying and gets its record, while an alert resolved
\* in an earlier tick is retained or deleted without one
C21_Witness ==
    /\ Succeeded
    /\ \E fp \in DOMAIN pre \ QualifiedFPs :
          /\ pre[fp].State = StateFiring
          /\ Cardinality(NormalItems(fp)) = 1
          /\ active[fp].State = StateInactive
    /\ \E fp \in DOMAIN pre \ QualifiedFPs :
          /\ pre[fp].State = StateInactive
          /\ pre[fp].ResolvedAt < ts
          /\ NormalItems(fp) = {}

====
